---------------------------- MODULE Spec2Model ----------------------------
(***************************************************************************)
(* A model of the ESDM press-release monitor (src/esdm_monitor.py).        *)
(*                                                                         *)
(* Text is a sequence of one-character strings, so that lower(), the `in'  *)
(* substring test, the date pattern and strip() are computed as Python     *)
(* computes them.  A URL or href is a sequence of path tokens.  An HTTP    *)
(* body is a record: the anchors BeautifulSoup finds in it, the text       *)
(* get_text() returns for it, and its og:description meta element.         *)
(***************************************************************************)
EXTENDS Integers, Sequences, FiniteSets, TLC

\* ------------------------------------------------------------------ bounds

\* Number of monitor processes (python esdm_monitor.py) started in a behaviour.
MaxRuns == 2

\* Latest clock reading when the database functions are exercised on their own.
MaxClock == 2

\* Largest `retries' argument tried when fetch_url is exercised on its own.
MaxRetries == 4

\* job() is called at most this many times.
MaxJobs == 3

\* ------------------------------------------------------------------- text

UpperCase == <<"A", "B", "C", "D", "E", "F", "G", "H", "I", "J", "K", "L", "M",
               "N", "O", "P", "Q", "R", "S", "T", "U", "V", "W", "X", "Y", "Z">>
LowerCase == <<"a", "b", "c", "d", "e", "f", "g", "h", "i", "j", "k", "l", "m",
               "n", "o", "p", "q", "r", "s", "t", "u", "v", "w", "x", "y", "z">>

\* str.lower() on one character.
LowerChar(c) ==
    IF \E i \in 1..Len(UpperCase) : UpperCase[i] = c
    THEN LowerCase[CHOOSE i \in 1..Len(UpperCase) : UpperCase[i] = c]
    ELSE c

\* str.lower()
Lower(s) == [i \in 1..Len(s) |-> LowerChar(s[i])]

\* Python's `k in s' on strings: k occurs in s as a contiguous run.
IsSubstr(k, s) ==
    \E i \in 0..(Len(s) - Len(k)) : SubSeq(s, i + 1, i + Len(k)) = k

\* str.startswith
StartsWith(s, p) == Len(p) <= Len(s) /\ SubSeq(s, 1, Len(p)) = p

\* The characters \s matches and strip() removes.
IsWs(c) == c \in {" ", "\n", "\r", "\t"}

RECURSIVE SkipWs(_, _)
\* Greedy \s* from position i: the first position >= i that holds no whitespace.
SkipWs(s, i) ==
    IF i <= Len(s) /\ IsWs(s[i]) THEN SkipWs(s, i + 1) ELSE i

RECURSIVE LineEnd(_, _)
\* Lazy (.*?) followed by (\n|\r|$): the first position >= i holding \n or \r,
\* or Len(s) + 1.
LineEnd(s, i) ==
    IF i <= Len(s) /\ s[i] \notin {"\n", "\r"} THEN LineEnd(s, i + 1) ELSE i

RECURSIVE RStrip(_)
RStrip(s) ==
    IF s # <<>> /\ IsWs(s[Len(s)]) THEN RStrip(SubSeq(s, 1, Len(s) - 1)) ELSE s

\* str.strip()
Strip(s) == LET k == SkipWs(s, 1) IN RStrip(SubSeq(s, k, Len(s)))

\* ---------------------------------------------------------- configuration

\* config.get("keywords", ...) as written in config.json; the first is the
\* default of line 27.
KwRkab == <<"r", "k", "a", "b">>
KwNikel == <<"n", "i", "k", "e", "l">>
KwKobalt == <<"k", "o", "b", "a", "l", "t">>
KwNikelCap == <<"N", "i", "k", "e", "l">>
KwRkabUp == <<"R", "K", "A", "B">>

DefaultKeywords == <<KwRkab, KwNikel, KwKobalt>>
CapitalKeywords == <<KwRkabUp, KwNikelCap, KwKobalt>>

\* The settings read at import: the configured keywords, whether an LLM API
\* key is set, whether a DingTalk webhook is set.
Configs ==
    { [keywords |-> DefaultKeywords, llm_api_key |-> TRUE, webhook |-> TRUE],
      [keywords |-> CapitalKeywords, llm_api_key |-> FALSE, webhook |-> FALSE] }

\* KEYWORDS = [k.lower() for k in config.get("keywords", ...)]
KEYWORDS(cfg) == [i \in 1..Len(cfg.keywords) |-> Lower(cfg.keywords[i])]

Origin == <<"https://www.esdm.go.id">>
TARGET_URL == Origin \o <<"/", "id", "/", "media-center", "/", "siaran-pers">>

\* len(title) > 10
MinTitleLen == 10

\* fetch_url(url, retries=3)
DefaultRetries == 3

\* --------------------------------------------------------------- the web

\* What fetch_url returns: response.content (a body) or None.  A body is
\* given by what the parser finds in it.
None ==
    [kind |-> "none", anchors |-> <<>>, text |-> <<>>,
     has_og |-> FALSE, og_content |-> <<>>]
\* b"": a 200 response with no content.
EmptyBody ==
    [kind |-> "empty", anchors |-> <<>>, text |-> <<>>,
     has_og |-> FALSE, og_content |-> <<>>]

HrefRel1 == <<"/", "arsip-berita", "/", "1">>
HrefAbs1 == Origin \o HrefRel1
HrefRel2 == <<"/", "arsip-berita", "/", "2">>
HrefExt3 == <<"https://esdm.go.id", "/", "arsip-berita", "/", "3">>
HrefNoMarker == <<"/", "berita", "/", "4">>

TitleNikel == <<"H", "a", "r", "g", "a", " ", "N", "I", "K", "E", "L">>
TitleUmum == <<"B", "e", "r", "i", "t", "a", " ", "u", "m", "u", "m">>
TitleMulti == <<"K", "o", "b", "a", "l", "t", " ", "R", "K", "A", "B">>
\* ten characters: not more than MinTitleLen
TitleShort == <<"N", "i", "k", "e", "l", " ", "b", "a", "r", "u">>

Anchor(href, text) == [has_href |-> TRUE, href |-> href, text |-> text]
AnchorNoHref(text) == [has_href |-> FALSE, href |-> <<>>, text |-> text]

ListingBody(anchors) ==
    [kind |-> "html", anchors |-> anchors, text |-> <<>>,
     has_og |-> FALSE, og_content |-> <<>>]

ListingA ==
    ListingBody(<< Anchor(HrefRel1, TitleNikel),
                   AnchorNoHref(TitleMulti),
                   Anchor(HrefAbs1, TitleMulti),
                   Anchor(HrefRel2, TitleUmum),
                   Anchor(HrefNoMarker, TitleNikel) >>)
ListingB ==
    ListingBody(<< Anchor(HrefRel2, TitleUmum),
                   Anchor(HrefRel1, TitleShort),
                   Anchor(HrefExt3, TitleMulti) >>)

\* "Tanggal : 19 Des \nNikel"
TextDate ==
    <<"T", "a", "n", "g", "g", "a", "l", " ", ":", " ", "1", "9", " ", "D",
      "e", "s", " ", "\n", "N", "i", "k", "e", "l">>
\* "Info umum"
TextPlain == <<"I", "n", "f", "o", " ", "u", "m", "u", "m">>
\* "KOBALT"
TextKobalt == <<"K", "O", "B", "A", "L", "T">>
\* "TANGGAL:  19 Des \rNikel"
TextBoth ==
    <<"T", "A", "N", "G", "G", "A", "L", ":", " ", " ", "1", "9", " ", "D",
      "e", "s", " ", "\r", "N", "i", "k", "e", "l">>
\* "tanggal:2 Jan"
OgDate == <<"t", "a", "n", "g", "g", "a", "l", ":", "2", " ", "J", "a", "n">>

DetailBody(text, has_og, og_content) ==
    [kind |-> "html", anchors |-> <<>>, text |-> text,
     has_og |-> has_og, og_content |-> og_content]

PageDate == DetailBody(TextDate, FALSE, <<>>)
PageOg == DetailBody(TextPlain, TRUE, OgDate)
PageKobalt == DetailBody(TextKobalt, FALSE, <<>>)
PageBoth == DetailBody(TextBoth, TRUE, OgDate)

\* The bodies the site may answer a GET of url with.
Web(url) ==
    IF url = TARGET_URL
    THEN {ListingA, ListingB, EmptyBody}
    ELSE {PageDate, PageOg, PageKobalt, PageBoth}

\* The body of an answer whose status is not 200.
ErrorPage ==
    [kind |-> "html", anchors |-> <<>>, text |-> <<"4", "0", "4">>,
     has_og |-> FALSE, og_content |-> <<>>]

\* The responses requests.get may return for url.
Responses(url) ==
    { [status_code |-> 200, content |-> b] : b \in Web(url) }
      \cup { [status_code |-> 404, content |-> ErrorPage] }

\* ---------------------------------------------------------- the database

\* The file DB_FILE: whether table news exists, and its rows.
NoDb == [exists |-> FALSE, rows |-> {}]

\* CREATE TABLE IF NOT EXISTS news (url TEXT PRIMARY KEY, ...)
init_db(d) == IF d.exists THEN d ELSE [exists |-> TRUE, rows |-> {}]

\* Mutant of is_processed: the lookup never finds the row.
is_processedNever(d, url) == FALSE

\* SELECT 1 FROM news WHERE url = ?
is_processed(d, url) == \E r \in d.rows : r.url = url

\* Mutant of mark_processed: INSERT OR REPLACE.
mark_processedReplace(d, url, title, published_date, ts) ==
    [d EXCEPT !.rows = {r \in @ : r.url # url} \cup
        {[url |-> url, title |-> title,
          published_date |-> published_date, processed_at |-> ts]}]

\* INSERT OR IGNORE INTO news ...: url is the primary key, so a row whose url
\* is already present is left alone and nothing is inserted.
mark_processed(d, url, title, published_date, ts) ==
    IF \E r \in d.rows : r.url = url
    THEN d
    ELSE [d EXCEPT !.rows = @ \cup
            {[url |-> url, title |-> title,
              published_date |-> published_date, processed_at |-> ts]}]

\* ------------------------------------------------- run_monitor's decisions

\* `if not html' / `if detail_html': None and b"" are both false.
Falsy(body) == body.kind \in {"none", "empty"}

\* Mutant of ListingMissing: the early return is missing.
ListingMissingNever(listing_html) == FALSE

\* Line 169: `if not html: return'
ListingMissing(listing_html) == Falsy(listing_html)

\* Line 219: `if detail_html:'
DetailPresent(body) == ~Falsy(body)

\* soup.find_all("a", href=True)
AllLinks(html) == SelectSeq(html.anchors, LAMBDA a : a.has_href)

\* "arsip-berita" in href and len(title) > 10
Qualifies(href, title) ==
    IsSubstr(<<"arsip-berita">>, href) /\ Len(title) > MinTitleLen

\* Mutant of FullUrl: a relative href is not resolved.
FullUrlUnresolved(href) == href

\* Fix relative URL
FullUrl(href) == IF StartsWith(href, <<"/">>) THEN Origin \o href ELSE href

\* Mutant of InFoundLinks: no deduplication within the run.
InFoundLinksNever(found, url) == FALSE

\* `if full_url in found_links: continue'
InFoundLinks(found, url) == url \in found

\* [k for k in KEYWORDS if k in text]
KeywordsIn(kws, text) == SelectSeq(kws, LAMBDA k : IsSubstr(k, text))

\* Mutant of TitleMatched: the title is not lower-cased.
TitleMatchedCaseSensitive(kws, title) == KeywordsIn(kws, title)

\* title_lower = title.lower(); matched = [k for k in KEYWORDS if k in title_lower]
TitleMatched(kws, title) == KeywordsIn(kws, Lower(title))

\* Mutant of Recheck: the body is matched whatever the title gave.
RecheckAlways(kws, matched, detail_text) ==
    matched \o SelectSeq(KeywordsIn(kws, detail_text),
                         LAMBDA k : \A i \in 1..Len(matched) : matched[i] # k)

\* if not matched: matched = [k for k in KEYWORDS if k in detail_text]
Recheck(kws, matched, detail_text) ==
    IF matched = <<>> THEN KeywordsIn(kws, detail_text) ELSE matched

Label == <<"t", "a", "n", "g", "g", "a", "l">>
Unknown == <<"U", "n", "k", "n", "o", "w", "n">>

\* Tanggal\s*[:] matches at position i (re.IGNORECASE).
LabelAt(s, i) ==
    /\ i + Len(Label) - 1 <= Len(s)
    /\ Lower(SubSeq(s, i, i + Len(Label) - 1)) = Label
    /\ LET j == SkipWs(s, i + Len(Label)) IN j <= Len(s) /\ s[j] = ":"

\* re.search(r"Tanggal\s*[:]\s*(.*?)(\n|\r|$)", s, re.IGNORECASE): whether it
\* matches, and group(1) of the leftmost match.
DateSearch(s) ==
    IF \E i \in 1..Len(s) : LabelAt(s, i)
    THEN LET i == CHOOSE i \in 1..Len(s) :
                    LabelAt(s, i) /\ \A h \in 1..(i - 1) : ~LabelAt(s, h)
             j == SkipWs(s, i + Len(Label))
             k == SkipWs(s, j + 1)
         IN  [found |-> TRUE, group1 |-> SubSeq(s, k, LineEnd(s, k) - 1)]
    ELSE [found |-> FALSE, group1 |-> <<>>]

\* Mutant of DateStr: date_str starts empty instead of "Unknown".
DateStrEmptyDefault(detail_html) ==
    IF ~DetailPresent(detail_html)
    THEN <<>>
    ELSE IF DateSearch(detail_html.text).found
         THEN Strip(DateSearch(detail_html.text).group1)
         ELSE IF detail_html.has_og /\ DateSearch(detail_html.og_content).found
              THEN Strip(DateSearch(detail_html.og_content).group1)
              ELSE <<>>

\* Mutant of DateStr: og:description is searched before the page text.
DateStrOgFirst(detail_html) ==
    IF ~DetailPresent(detail_html)
    THEN Unknown
    ELSE IF detail_html.has_og /\ DateSearch(detail_html.og_content).found
         THEN Strip(DateSearch(detail_html.og_content).group1)
         ELSE IF DateSearch(detail_html.text).found
              THEN Strip(DateSearch(detail_html.text).group1)
              ELSE Unknown

\* date_str after lines 216-236
DateStr(detail_html) ==
    IF ~DetailPresent(detail_html)
    THEN Unknown
    ELSE IF DateSearch(detail_html.text).found
         THEN Strip(DateSearch(detail_html.text).group1)
         ELSE IF detail_html.has_og /\ DateSearch(detail_html.og_content).found
              THEN Strip(DateSearch(detail_html.og_content).group1)
              ELSE Unknown

\* detail_text after lines 216-239
DetailText(detail_html) ==
    IF ~DetailPresent(detail_html) THEN <<>> ELSE Lower(detail_html.text)

\* The text appended when no LLM key is configured.
NoKeyMarker == <<" ", "(", "untranslated", ")">>

\* resp.json()['choices'][0]['message']['content'].strip() of a good answer
LlmAnswer(text) == <<"zh", ":">> \o text

\* translate_title(text) when the request ends in `outcome'.
translate_title(cfg, text, outcome) ==
    IF ~cfg.llm_api_key
    THEN text \o NoKeyMarker
    ELSE IF outcome = "ok" THEN LlmAnswer(text) ELSE text

\* The ways the POST to the LLM can end: a good 200 answer, a 200 answer
\* whose JSON lacks the fields, another status, a transport error.
LlmOutcomes == {"ok", "bad_json", "status", "error"}

\* The ways the POST to DingTalk can end.
DingOutcomes == {"errcode0", "errcode", "error"}

\* Mutant of send_dingtalk: a transport error of the POST is not caught.
send_dingtalkRaises(cfg, outcome) ==
    IF ~cfg.webhook
    THEN [posted |-> FALSE, delivered |-> FALSE, raised |-> FALSE]
    ELSE [posted |-> TRUE, delivered |-> (outcome = "errcode0"),
          raised |-> (outcome = "error")]

\* What send_dingtalk does when the POST ends in `outcome': whether a POST
\* was made, whether DingTalk accepted it, whether an exception leaves the
\* function.  Without a webhook it returns at once; the POST and the reading
\* of its answer are inside try/except Exception.
send_dingtalk(cfg, outcome) ==
    IF ~cfg.webhook
    THEN [posted |-> FALSE, delivered |-> FALSE, raised |-> FALSE]
    ELSE [posted |-> TRUE, delivered |-> (outcome = "errcode0"), raised |-> FALSE]

\* Mutant of PersistNoMatch: a candidate without a hit is not recorded.
PersistNoMatchSkipped(d, url, title, published_date, ts) == d

\* Line 260: a candidate without a hit is recorded all the same.
PersistNoMatch(d, url, title, published_date, ts) ==
    mark_processed(d, url, title, published_date, ts)

\* Mutant of PersistMatch: a hit is not recorded.
PersistMatchSkipped(d, url, title, published_date, ts) == d

\* Line 255: a hit is recorded after its notification.
PersistMatch(d, url, title, published_date, ts) ==
    mark_processed(d, url, title, published_date, ts)

\* Mutant of FetchMore: one pass too many.
FetchMoreOffByOne(i, retries) == i <= retries

\* for i in range(retries): another pass of the loop is due.
FetchMore(i, retries) == i < retries

\* if response.status_code == 200: return response.content
FetchReturns(status_code) == status_code = 200

\* ------------------------------------------------------------------ state

VARIABLES
    config,        \* the settings loaded at import
    db,            \* the SQLite file
    clock,         \* datetime.now(), advanced once per process start
    pc,            \* where the monitor process is; "idle": no process
    html,          \* run_monitor's locals
    all_links,
    idx,           \* position of `link' in all_links
    found_links,
    title,
    full_url,
    matched,
    detail_html,
    detail_text,
    date_str,
    title_cn,
    fetchPc,       \* fetch_url's frame: "idle", "loop", "returned"
    fetchUrl,
    fetchRetries,
    fetchI,        \* passes of the for loop begun
    fetchRes,      \* the value returned
    fetchLog,      \* history: the outcome of each GET of this call
    sendLog,       \* history: calls of send_dingtalk per url, all runs
    cutLog,        \* history: terminations between send_dingtalk and
                   \*          mark_processed per url, all runs
    sentInRun,     \* history: urls send_dingtalk was called for, this run
    fetchedInRun,  \* history: urls a detail fetch was begun for, this run
    classLog,      \* history: terminal classifications, this run
    failures,      \* history: failed steps per url, this run
    dbAtStart,     \* history: db when this run began
    prevHtml,      \* history: the listing of the run before, if it completed
    cut,           \* history: the listing and the rows of the run before, if it
                   \*          was terminated after its listing fetch
    schedPc,       \* where the scheduler process is
    due,           \* the scheduled job's next_run has come
    live,          \* monitor processes alive
    reaped,        \* exit statuses of ended monitor processes, not yet read
    jobs,          \* history: calls of job() begun
    exits          \* history: how subprocess.run ended in each job() so far

runVars ==
    <<html, all_links, idx, found_links, title, full_url, matched,
      detail_html, detail_text, date_str, title_cn>>
fetchVars == <<fetchPc, fetchUrl, fetchRetries, fetchI, fetchRes, fetchLog>>
lifeVars == <<sendLog, cutLog>>
histVars == <<sentInRun, fetchedInRun, classLog, failures, dbAtStart>>
schedVars == <<schedPc, due, live, reaped, jobs, exits>>
vars ==
    <<config, db, clock, pc, runVars, fetchVars, lifeVars, histVars, prevHtml,
      cut, schedVars>>

\* The resolved urls of the anchors of all listings.
Urls ==
    { FullUrl(b.anchors[i].href) :
        <<b, i>> \in { <<b, i>> \in Web(TARGET_URL) \X (1..5) :
                         i <= Len(b.anchors) /\ b.anchors[i].has_href } }

NoLocals ==
    /\ html = None
    /\ all_links = <<>>
    /\ idx = 0
    /\ found_links = {}
    /\ title = <<>>
    /\ full_url = <<>>
    /\ matched = <<>>
    /\ detail_html = None
    /\ detail_text = <<>>
    /\ date_str = <<>>
    /\ title_cn = <<>>

NoFetch ==
    /\ fetchPc = "idle"
    /\ fetchUrl = <<>>
    /\ fetchRetries = 0
    /\ fetchI = 0
    /\ fetchRes = None
    /\ fetchLog = <<>>

\* No run was cut off.
NoCut == [html |-> None, rows |-> {}]

NoHistory ==
    /\ sentInRun = <<>>
    /\ fetchedInRun = {}
    /\ classLog = <<>>
    /\ failures = {}
    /\ dbAtStart = NoDb

\* scheduler.py has been started and has registered the job (line 20).
NoJobYet ==
    /\ schedPc = "main"
    /\ due = FALSE
    /\ live = 0
    /\ reaped = <<>>
    /\ jobs = 0
    /\ exits = <<>>

Init ==
    /\ config \in Configs
    /\ db = NoDb
    /\ clock = 0
    /\ pc = "idle"
    /\ NoLocals
    /\ NoFetch
    /\ sendLog = [u \in Urls |-> 0]
    /\ cutLog = [u \in Urls |-> 0]
    /\ NoHistory
    /\ prevHtml = None
    /\ cut = NoCut
    /\ NoJobYet

\* ----------------------------------------------------------------- fetch_url

\* fetch_url(url, retries) is entered.
CallFetch(url, retries) ==
    /\ fetchPc' = "loop"
    /\ fetchUrl' = url
    /\ fetchRetries' = retries
    /\ fetchI' = 0
    /\ fetchRes' = None
    /\ fetchLog' = <<>>

\* The caller has taken the returned value.
DropFetch ==
    /\ fetchPc' = "idle"
    /\ fetchUrl' = <<>>
    /\ fetchRetries' = 0
    /\ fetchI' = 0
    /\ fetchRes' = None
    /\ fetchLog' = <<>>

\* One pass of the loop in which requests.get answers.
FetchResponse ==
    /\ fetchPc = "loop"
    /\ FetchMore(fetchI, fetchRetries)
    /\ \E response \in Responses(fetchUrl) :
         /\ fetchLog' = Append(fetchLog,
                          [error |-> FALSE, status_code |-> response.status_code,
                           content |-> response.content])
         /\ IF FetchReturns(response.status_code)
            THEN /\ fetchRes' = response.content
                 /\ fetchPc' = "returned"
                 /\ fetchI' = fetchI
            ELSE /\ fetchI' = fetchI + 1
                 /\ UNCHANGED <<fetchRes, fetchPc>>
    /\ UNCHANGED <<fetchUrl, fetchRetries>>
    /\ UNCHANGED <<config, db, clock, pc, runVars, lifeVars, histVars, prevHtml, cut, schedVars>>

\* One pass of the loop in which requests.get raises (caught, line 79).
FetchError ==
    /\ fetchPc = "loop"
    /\ FetchMore(fetchI, fetchRetries)
    /\ fetchLog' = Append(fetchLog,
                     [error |-> TRUE, status_code |-> 0, content |-> None])
    /\ fetchI' = fetchI + 1
    /\ UNCHANGED <<fetchRes, fetchPc, fetchUrl, fetchRetries>>
    /\ UNCHANGED <<config, db, clock, pc, runVars, lifeVars, histVars, prevHtml, cut, schedVars>>

\* The loop is over: return None.
FetchExhausted ==
    /\ fetchPc = "loop"
    /\ ~FetchMore(fetchI, fetchRetries)
    /\ fetchRes' = None
    /\ fetchPc' = "returned"
    /\ UNCHANGED <<fetchI, fetchLog, fetchUrl, fetchRetries>>
    /\ UNCHANGED <<config, db, clock, pc, runVars, lifeVars, histVars, prevHtml, cut, schedVars>>

\* -------------------------------------------------------------- the process

ResetLocals ==
    /\ html' = None
    /\ all_links' = <<>>
    /\ idx' = 0
    /\ found_links' = {}
    /\ title' = <<>>
    /\ full_url' = <<>>
    /\ matched' = <<>>
    /\ detail_html' = None
    /\ detail_text' = <<>>
    /\ date_str' = <<>>
    /\ title_cn' = <<>>

ResetHistory ==
    /\ sentInRun' = <<>>
    /\ fetchedInRun' = {}
    /\ classLog' = <<>>
    /\ failures' = {}
    /\ dbAtStart' = NoDb

\* python esdm_monitor.py is started: init_db() of line 263.
Start ==
    /\ pc = "idle"
    /\ fetchPc = "idle"
    /\ clock < MaxRuns
    /\ clock' = clock + 1
    /\ db' = init_db(db)
    /\ dbAtStart' = init_db(db)
    /\ pc' = "run_monitor"
    /\ UNCHANGED <<sentInRun, fetchedInRun, classLog, failures>>
    /\ UNCHANGED <<config, runVars, fetchVars, lifeVars, prevHtml, cut, schedVars>>

\* run_monitor is entered: html = fetch_url(TARGET_URL)
RunMonitor ==
    /\ pc = "run_monitor"
    /\ CallFetch(TARGET_URL, DefaultRetries)
    /\ pc' = "listing"
    /\ UNCHANGED <<config, db, clock, runVars, lifeVars, histVars, prevHtml, cut, schedVars>>

\* Lines 168-182: the listing fetch has returned.  BeautifulSoup(None) raises
\* TypeError, which nothing in run_monitor catches.
AfterListing ==
    /\ pc = "listing"
    /\ fetchPc = "returned"
    /\ html' = fetchRes
    /\ DropFetch
    /\ IF ListingMissing(fetchRes)
       THEN /\ pc' = "done"
            /\ UNCHANGED <<all_links, idx, found_links>>
       ELSE IF fetchRes.kind = "none"
            THEN /\ pc' = "raised"
                 /\ UNCHANGED <<all_links, idx, found_links>>
            ELSE /\ all_links' = AllLinks(fetchRes)
                 /\ idx' = 1
                 /\ found_links' = {}
                 /\ pc' = "loop"
    /\ UNCHANGED <<title, full_url, matched, detail_html, detail_text,
                   date_str, title_cn>>
    /\ UNCHANGED <<config, db, clock, lifeVars, histVars, prevHtml, cut, schedVars>>

\* The for loop of line 184 has no link left: run_monitor returns.
LoopExit ==
    /\ pc = "loop"
    /\ idx > Len(all_links)
    /\ pc' = "done"
    /\ UNCHANGED <<config, db, clock, runVars, fetchVars, lifeVars, histVars,
                   prevHtml, cut, schedVars>>

\* Line 188: the link is no article link.
LoopSkipLink ==
    /\ pc = "loop"
    /\ idx <= Len(all_links)
    /\ ~Qualifies(all_links[idx].href, all_links[idx].text)
    /\ idx' = idx + 1
    /\ UNCHANGED <<html, all_links, found_links, title, full_url, matched,
                   detail_html, detail_text, date_str, title_cn>>
    /\ UNCHANGED <<config, db, clock, pc, fetchVars, lifeVars, histVars,
                   prevHtml, cut, schedVars>>

\* Lines 195-196: the url was met earlier in this run.
LoopDuplicate ==
    /\ pc = "loop"
    /\ idx <= Len(all_links)
    /\ Qualifies(all_links[idx].href, all_links[idx].text)
    /\ InFoundLinks(found_links, FullUrl(all_links[idx].href))
    /\ idx' = idx + 1
    /\ UNCHANGED <<html, all_links, found_links, title, full_url, matched,
                   detail_html, detail_text, date_str, title_cn>>
    /\ UNCHANGED <<config, db, clock, pc, fetchVars, lifeVars, histVars,
                   prevHtml, cut, schedVars>>

\* Lines 197-201: the url has a row: skip it.
LoopProcessed ==
    /\ pc = "loop"
    /\ idx <= Len(all_links)
    /\ Qualifies(all_links[idx].href, all_links[idx].text)
    /\ ~InFoundLinks(found_links, FullUrl(all_links[idx].href))
    /\ is_processed(db, FullUrl(all_links[idx].href))
    /\ found_links' = found_links \cup {FullUrl(all_links[idx].href)}
    /\ classLog' = Append(classLog,
                     [url |-> FullUrl(all_links[idx].href), class |-> "Seen-before"])
    /\ idx' = idx + 1
    /\ UNCHANGED <<html, all_links, title, full_url, matched,
                   detail_html, detail_text, date_str, title_cn>>
    /\ UNCHANGED <<sentInRun, fetchedInRun, failures, dbAtStart>>
    /\ UNCHANGED <<config, db, clock, pc, fetchVars, lifeVars, prevHtml, cut, schedVars>>

\* Mutant of LoopNew: the detail page is fetched only when the title did not
\* match.
LoopNewLazyFetch ==
    /\ pc = "loop"
    /\ idx <= Len(all_links)
    /\ Qualifies(all_links[idx].href, all_links[idx].text)
    /\ ~InFoundLinks(found_links, FullUrl(all_links[idx].href))
    /\ ~is_processed(db, FullUrl(all_links[idx].href))
    /\ found_links' = found_links \cup {FullUrl(all_links[idx].href)}
    /\ title' = all_links[idx].text
    /\ full_url' = FullUrl(all_links[idx].href)
    /\ matched' = TitleMatched(KEYWORDS(config), all_links[idx].text)
    /\ IF TitleMatched(KEYWORDS(config), all_links[idx].text) = <<>>
       THEN /\ CallFetch(FullUrl(all_links[idx].href), DefaultRetries)
            /\ fetchedInRun' = fetchedInRun \cup {FullUrl(all_links[idx].href)}
       ELSE /\ fetchPc' = "returned"
            /\ fetchRes' = None
            /\ UNCHANGED <<fetchUrl, fetchRetries, fetchI, fetchLog>>
            /\ UNCHANGED fetchedInRun
    /\ detail_html' = None
    /\ detail_text' = <<>>
    /\ date_str' = <<>>
    /\ title_cn' = <<>>
    /\ pc' = "detail"
    /\ UNCHANGED <<html, all_links, idx>>
    /\ UNCHANGED <<sentInRun, classLog, failures, dbAtStart>>
    /\ UNCHANGED <<config, db, clock, lifeVars, prevHtml, cut, schedVars>>

\* Lines 197-215: a new candidate: match the title, fetch the detail page.
LoopNew ==
    /\ pc = "loop"
    /\ idx <= Len(all_links)
    /\ Qualifies(all_links[idx].href, all_links[idx].text)
    /\ ~InFoundLinks(found_links, FullUrl(all_links[idx].href))
    /\ ~is_processed(db, FullUrl(all_links[idx].href))
    /\ found_links' = found_links \cup {FullUrl(all_links[idx].href)}
    /\ title' = all_links[idx].text
    /\ full_url' = FullUrl(all_links[idx].href)
    /\ matched' = TitleMatched(KEYWORDS(config), all_links[idx].text)
    /\ CallFetch(FullUrl(all_links[idx].href), DefaultRetries)
    /\ fetchedInRun' = fetchedInRun \cup {FullUrl(all_links[idx].href)}
    /\ detail_html' = None
    /\ detail_text' = <<>>
    /\ date_str' = <<>>
    /\ title_cn' = <<>>
    /\ pc' = "detail"
    /\ UNCHANGED <<html, all_links, idx>>
    /\ UNCHANGED <<sentInRun, classLog, failures, dbAtStart>>
    /\ UNCHANGED <<config, db, clock, lifeVars, prevHtml, cut, schedVars>>

\* Lines 215-245: the detail fetch has returned: text, date, second match.
AfterDetail ==
    /\ pc = "detail"
    /\ fetchPc = "returned"
    /\ detail_html' = fetchRes
    /\ detail_text' = DetailText(fetchRes)
    /\ date_str' = DateStr(fetchRes)
    /\ matched' = Recheck(KEYWORDS(config), matched, DetailText(fetchRes))
    /\ pc' = IF Recheck(KEYWORDS(config), matched, DetailText(fetchRes)) # <<>>
             THEN "translate" ELSE "mark_nomatch"
    /\ failures' = IF fetchRes.kind = "none"
                   THEN failures \cup {[url |-> full_url, what |-> "detail"]}
                   ELSE failures
    /\ DropFetch
    /\ UNCHANGED <<html, all_links, idx, found_links, title, full_url, title_cn>>
    /\ UNCHANGED <<sentInRun, fetchedInRun, classLog, dbAtStart>>
    /\ UNCHANGED <<config, db, clock, lifeVars, prevHtml, cut, schedVars>>

\* Line 249, no LLM key: no request is made.
TranslateNoKey ==
    /\ pc = "translate"
    /\ ~config.llm_api_key
    /\ title_cn' = translate_title(config, title, "ok")
    /\ pc' = "send"
    /\ UNCHANGED <<html, all_links, idx, found_links, title, full_url, matched,
                   detail_html, detail_text, date_str>>
    /\ UNCHANGED <<config, db, clock, fetchVars, lifeVars, histVars, prevHtml, cut, schedVars>>

\* Mutant of TranslateCall: the candidate is recorded before it is notified.
TranslateCallThenMark ==
    /\ pc = "translate"
    /\ config.llm_api_key
    /\ \E outcome \in LlmOutcomes :
         /\ title_cn' = translate_title(config, title, outcome)
         /\ failures' = IF outcome # "ok"
                        THEN failures \cup {[url |-> full_url, what |-> "translate"]}
                        ELSE failures
    /\ pc' = "mark_match"
    /\ UNCHANGED <<html, all_links, idx, found_links, title, full_url, matched,
                   detail_html, detail_text, date_str>>
    /\ UNCHANGED <<sentInRun, fetchedInRun, classLog, dbAtStart>>
    /\ UNCHANGED <<config, db, clock, fetchVars, lifeVars, prevHtml, cut, schedVars>>

\* Line 249: the request to the LLM ends one way or another.
TranslateCall ==
    /\ pc = "translate"
    /\ config.llm_api_key
    /\ \E outcome \in LlmOutcomes :
         /\ title_cn' = translate_title(config, title, outcome)
         /\ failures' = IF outcome # "ok"
                        THEN failures \cup {[url |-> full_url, what |-> "translate"]}
                        ELSE failures
    /\ pc' = "send"
    /\ UNCHANGED <<html, all_links, idx, found_links, title, full_url, matched,
                   detail_html, detail_text, date_str>>
    /\ UNCHANGED <<sentInRun, fetchedInRun, classLog, dbAtStart>>
    /\ UNCHANGED <<config, db, clock, fetchVars, lifeVars, prevHtml, cut, schedVars>>

\* Line 252: send_dingtalk(title_cn, title, matched, date_str, full_url)
Send ==
    /\ pc = "send"
    /\ \E outcome \in DingOutcomes :
         LET r == send_dingtalk(config, outcome)
         IN  /\ failures' = IF ~r.delivered
                            THEN failures \cup {[url |-> full_url, what |-> "notify"]}
                            ELSE failures
             /\ pc' = IF r.raised THEN "raised" ELSE "mark_match"
    /\ sendLog' = [sendLog EXCEPT ![full_url] = @ + 1]
    /\ sentInRun' = Append(sentInRun, full_url)
    /\ UNCHANGED <<cutLog, fetchedInRun, classLog, dbAtStart>>
    /\ UNCHANGED <<config, db, clock, runVars, fetchVars, prevHtml, cut, schedVars>>

\* Line 255
MarkMatch ==
    /\ pc = "mark_match"
    /\ db' = PersistMatch(db, full_url, title, date_str, clock)
    /\ classLog' = Append(classLog, [url |-> full_url, class |-> "New-Match"])
    /\ idx' = idx + 1
    /\ pc' = "loop"
    /\ UNCHANGED <<html, all_links, found_links, title, full_url, matched,
                   detail_html, detail_text, date_str, title_cn>>
    /\ UNCHANGED <<sentInRun, fetchedInRun, failures, dbAtStart>>
    /\ UNCHANGED <<config, clock, fetchVars, lifeVars, prevHtml, cut, schedVars>>

\* Line 260
MarkNoMatch ==
    /\ pc = "mark_nomatch"
    /\ db' = PersistNoMatch(db, full_url, title, date_str, clock)
    /\ classLog' = Append(classLog, [url |-> full_url, class |-> "New-NoMatch"])
    /\ idx' = idx + 1
    /\ pc' = "loop"
    /\ UNCHANGED <<html, all_links, found_links, title, full_url, matched,
                   detail_html, detail_text, date_str, title_cn>>
    /\ UNCHANGED <<sentInRun, fetchedInRun, failures, dbAtStart>>
    /\ UNCHANGED <<config, clock, fetchVars, lifeVars, prevHtml, cut, schedVars>>

\* run_monitor has returned and the process exits.
Finish ==
    /\ pc = "done"
    /\ pc' = "idle"
    /\ prevHtml' = IF ListingMissing(html) THEN None ELSE html
    /\ cut' = NoCut
    /\ ResetLocals
    /\ ResetHistory
    /\ UNCHANGED <<config, db, clock, fetchVars, lifeVars, schedVars>>

\* The process is terminated, wherever it is (or dies of an exception).
Terminate ==
    /\ pc # "idle"
    /\ pc' = "idle"
    /\ cutLog' = IF pc = "mark_match"
                 THEN [cutLog EXCEPT ![full_url] = @ + 1]
                 ELSE cutLog
    /\ prevHtml' = None
    /\ cut' = IF html.kind = "html"
              THEN [html |-> html, rows |-> db.rows]
              ELSE NoCut
    /\ ResetLocals
    /\ ResetHistory
    /\ DropFetch
    /\ UNCHANGED <<config, db, clock, sendLog, schedVars>>

Next ==
    \/ Start
    \/ RunMonitor
    \/ FetchResponse
    \/ FetchError
    \/ FetchExhausted
    \/ AfterListing
    \/ LoopExit
    \/ LoopSkipLink
    \/ LoopDuplicate
    \/ LoopProcessed
    \/ LoopNew
    \/ AfterDetail
    \/ TranslateNoKey
    \/ TranslateCall
    \/ Send
    \/ MarkMatch
    \/ MarkNoMatch
    \/ Finish
    \/ Terminate

Spec == Init /\ [][Next]_vars

\* ------------------------------------------- fetch_url exercised on its own

\* fetch_url is called with any url and any retries.
FetchCallAny ==
    /\ pc = "idle"
    /\ fetchPc = "idle"
    /\ \E url \in {TARGET_URL} \cup Urls, retries \in 0..MaxRetries :
         CallFetch(url, retries)
    /\ UNCHANGED <<config, db, clock, pc, runVars, lifeVars, histVars, prevHtml, cut, schedVars>>

\* The caller takes the value returned.
FetchTaken ==
    /\ pc = "idle"
    /\ fetchPc = "returned"
    /\ DropFetch
    /\ UNCHANGED <<config, db, clock, pc, runVars, lifeVars, histVars, prevHtml, cut, schedVars>>

NextFetch ==
    \/ FetchCallAny
    \/ FetchResponse
    \/ FetchError
    \/ FetchExhausted
    \/ FetchTaken

SpecFetch == Init /\ [][NextFetch]_vars

\* ------------------------------------ the database exercised on its own

Titles == {TitleNikel, TitleUmum}
Dates == {Unknown, <<"2", " ", "J", "a", "n">>}

\* init_db()
DbInit ==
    /\ pc = "idle"
    /\ db' = init_db(db)
    /\ UNCHANGED <<config, clock, pc, runVars, fetchVars, lifeVars, histVars,
                   prevHtml, cut, schedVars>>

\* mark_processed(url, title, published_date) with any arguments, kept in
\* full_url, title and date_str.
DbMark ==
    /\ pc = "idle"
    /\ db.exists
    /\ \E u \in {FullUrl(HrefRel1), FullUrl(HrefRel2)}, t \in Titles, d \in Dates :
         /\ db' = mark_processed(db, u, t, d, clock)
         /\ full_url' = u
         /\ title' = t
         /\ date_str' = d
    /\ UNCHANGED <<html, all_links, idx, found_links, matched, detail_html,
                   detail_text, title_cn>>
    /\ UNCHANGED <<config, clock, pc, fetchVars, lifeVars, histVars, prevHtml, cut, schedVars>>

\* Time passes.
DbTick ==
    /\ pc = "idle"
    /\ clock < MaxClock
    /\ clock' = clock + 1
    /\ UNCHANGED <<config, db, pc, runVars, fetchVars, lifeVars, histVars,
                   prevHtml, cut, schedVars>>

NextDb ==
    \/ DbInit
    \/ DbMark
    \/ DbTick

SpecDb == Init /\ [][NextDb]_vars

\* ------------------------------------------------------------ scheduler.py

monitorVars ==
    <<config, db, clock, pc, runVars, fetchVars, lifeVars, histVars, prevHtml,
      cut>>

\* Line 27: job() is called once, directly.
JobFirst ==
    /\ schedPc = "main"
    /\ schedPc' = "job"
    /\ jobs' = jobs + 1
    /\ UNCHANGED <<due, live, reaped, exits, monitorVars>>

\* Ten minutes have passed since the job was registered (line 20) or since
\* its last scheduled call returned.
TimePasses ==
    /\ ~due
    /\ due' = TRUE
    /\ UNCHANGED <<schedPc, live, reaped, jobs, exits, monitorVars>>

\* Line 30: schedule.run_pending() finds the job due and calls job().
RunPending ==
    /\ schedPc = "loop"
    /\ due
    /\ jobs < MaxJobs
    /\ schedPc' = "job"
    /\ jobs' = jobs + 1
    /\ UNCHANGED <<due, live, reaped, exits, monitorVars>>

\* Line 13: subprocess.run starts the monitor process and waits for it.
SubprocessStarts ==
    /\ schedPc = "job"
    /\ live' = live + 1
    /\ schedPc' = "wait"
    /\ UNCHANGED <<due, reaped, jobs, exits, monitorVars>>

\* Line 13: the process cannot be started; subprocess.run raises OSError.
SubprocessCannotStart ==
    /\ schedPc = "job"
    /\ exits' = Append(exits, "nostart")
    /\ schedPc' = "except"
    /\ UNCHANGED <<due, live, reaped, jobs, monitorVars>>

\* A monitor process ends, by itself or killed, with an exit status.
ChildExits ==
    /\ live > 0
    /\ live' = live - 1
    /\ \E status \in {"zero", "nonzero"} : reaped' = Append(reaped, status)
    /\ UNCHANGED <<schedPc, due, jobs, exits, monitorVars>>

\* Mutant of WaitReturns: the process is started and not waited for.
WaitReturnsAtOnce ==
    /\ schedPc = "wait"
    /\ exits' = Append(exits, "ok")
    /\ schedPc' = "return"
    /\ UNCHANGED <<due, live, reaped, jobs, monitorVars>>

\* Line 13: subprocess.run sees its process ended; check=True raises
\* CalledProcessError on a non-zero status.
WaitReturns ==
    /\ schedPc = "wait"
    /\ reaped # <<>>
    /\ reaped' = Tail(reaped)
    /\ exits' = Append(exits, IF Head(reaped) = "zero" THEN "ok" ELSE "nonzero")
    /\ schedPc' = IF Head(reaped) = "zero" THEN "return" ELSE "except"
    /\ UNCHANGED <<due, live, jobs, monitorVars>>

\* Mutant of Except: job() has no except clause.
ExceptMissing ==
    /\ schedPc = "except"
    /\ schedPc' = "crashed"
    /\ UNCHANGED <<due, live, reaped, jobs, exits, monitorVars>>

\* Lines 14-17: both exceptions are caught and printed.
Except ==
    /\ schedPc = "except"
    /\ schedPc' = "return"
    /\ UNCHANGED <<due, live, reaped, jobs, exits, monitorVars>>

\* job() returns, to line 29 or into run_pending, which sets the job's next
\* run ten minutes ahead.
JobReturn ==
    /\ schedPc = "return"
    /\ schedPc' = "loop"
    /\ due' = IF jobs > 1 THEN FALSE ELSE due
    /\ UNCHANGED <<live, reaped, jobs, exits, monitorVars>>

NextSched ==
    \/ JobFirst
    \/ TimePasses
    \/ RunPending
    \/ SubprocessStarts
    \/ SubprocessCannotStart
    \/ ChildExits
    \/ WaitReturns
    \/ Except
    \/ JobReturn

SpecSched == Init /\ [][NextSched]_vars

\* The scheduler process keeps running and time passes.
SpecSchedFair ==
    /\ SpecSched
    /\ WF_vars(TimePasses)
    /\ WF_vars(RunPending)
    /\ WF_vars(Except)
    /\ WF_vars(JobReturn)

\* ----------------------------------------------------------------- claims

Url1 == Origin \o HrefRel1
Url2 == Origin \o HrefRel2
Url3 == HrefExt3

\* The seen-set holds a row for u.
HasRow(u) == \E r \in db.rows : r.url = u

\* The candidates of a listing: the resolved urls of its qualifying links.
CandidateUrls(listing) ==
    { FullUrl(listing.anchors[i].href) :
        i \in { j \in 1..Len(listing.anchors) :
                  /\ listing.anchors[j].has_href
                  /\ IsSubstr(<<"arsip-berita">>, listing.anchors[j].href)
                  /\ Len(listing.anchors[j].text) > 10 } }

\* The listing fetch of the current run gave a page.
ListingFetched == pc \in {"loop", "detail", "translate", "send", "mark_match",
                          "mark_nomatch", "done"} /\ html.kind = "html"

\* The current candidate is past its match decision.
Decided == pc \in {"translate", "send", "mark_match", "mark_nomatch"}

\* The number of classifications of u in this run.
TimesClassified(u) == Cardinality({i \in 1..Len(classLog) : classLog[i].url = u})

\* C1 as claimed: over all runs, completed or cut off at any step,
\* send_dingtalk is called at most once for a url.
C1_AtMostOnceEver == \A u \in Urls : sendLog[u] <= 1

\* C1 as amended: send_dingtalk is called at most once for a url, plus once
\* for every run that was cut off after send_dingtalk and before
\* mark_processed for that url; and never for a url that has a row.
C1_AtMostOnceUnlessCut ==
    /\ \A u \in Urls : sendLog[u] <= 1 + cutLog[u]
    /\ pc = "send" => ~HasRow(full_url)

C1_Witness ==
    /\ sendLog[Url1] = 1
    /\ cutLog[Url1] = 0
    /\ pc = "done"
    /\ clock = 2
    /\ \E i \in 1..Len(classLog) :
         classLog[i] = [url |-> Url1, class |-> "Seen-before"]

\* C2: a run that got the same listing page as the completed run before it
\* calls send_dingtalk for no url, and every candidate of the listing already
\* has a row when the run looks at the listing.
C2_SecondRunSilent ==
    (ListingFetched /\ prevHtml.kind = "html" /\ html = prevHtml)
        => /\ sentInRun = <<>>
           /\ \A u \in CandidateUrls(html) : HasRow(u)
           /\ \A u \in CandidateUrls(html) : \E r \in dbAtStart.rows : r.url = u

C2_Witness ==
    /\ pc = "done"
    /\ html = ListingA
    /\ prevHtml = ListingA
    /\ sendLog[Url1] = 1
    /\ sentInRun = <<>>
    /\ Len(classLog) = 2

\* C3: when a run whose listing fetch succeeded returns, every candidate of
\* the listing has a row; and a url that has a row is never processed (no
\* detail fetch, match, notification or insert is under way for it).
C3_CandidatesRecorded ==
    /\ (pc = "done" /\ html.kind = "html")
          => \A u \in CandidateUrls(html) : HasRow(u)
    /\ (pc \in {"detail", "translate", "send", "mark_match", "mark_nomatch"})
          => ~HasRow(full_url)

C3_Witness ==
    /\ pc = "done"
    /\ html = ListingA
    /\ [url |-> Url1, what |-> "detail"] \in failures
    /\ classLog = << [url |-> Url1, class |-> "New-Match"],
                     [url |-> Url2, class |-> "New-NoMatch"] >>
    /\ HasRow(Url1)
    /\ HasRow(Url2)

\* C4: in a completed run every candidate of the listing is classified
\* exactly once, as Seen-before, New-NoMatch or New-Match, nothing else is
\* classified, and the seen-set never holds two rows with the same url.
C4_OneClassification ==
    /\ (pc = "done" /\ html.kind = "html")
          => /\ \A u \in CandidateUrls(html) : TimesClassified(u) = 1
             /\ \A i \in 1..Len(classLog) :
                  /\ classLog[i].url \in CandidateUrls(html)
                  /\ classLog[i].class \in {"Seen-before", "New-NoMatch", "New-Match"}
    /\ \A r1 \in db.rows, r2 \in db.rows : r1.url = r2.url => r1 = r2

C4_Witness ==
    /\ pc = "done"
    /\ html = ListingB
    /\ clock = 2
    /\ classLog = << [url |-> Url2, class |-> "Seen-before"],
                     [url |-> Url3, class |-> "New-Match"] >>
    /\ Cardinality(db.rows) = 3

\* C5: a row of the seen-set is never changed or deleted, whatever
\* init_db or mark_processed is called with (so the recorded urls only grow).
C5_RowsNeverChange == [][\A r \in db.rows : r \in db'.rows]_vars

\* mark_processed was last called for a url that has a row, with another
\* title and date and at another time, and the row is as it was.
C5_Witness ==
    \E r \in db.rows :
        /\ r.url = full_url
        /\ r.title # title
        /\ r.published_date # date_str
        /\ r.processed_at # clock

\* A GET that was answered with status 200.
Ok200(attempt) == ~attempt.error /\ attempt.status_code = 200

\* C6: fetch_url makes at most `retries' GETs, makes none after a 200, returns
\* the content of the first 200 response, and returns None when all `retries'
\* GETs ended in another status or an error; it ends in no other way.
C6_FetchContract ==
    /\ Len(fetchLog) <= fetchRetries
    /\ fetchPc \in {"idle", "loop", "returned"}
    /\ fetchPc = "loop" => \A i \in 1..Len(fetchLog) : ~Ok200(fetchLog[i])
    /\ fetchPc = "returned" =>
         IF \E i \in 1..Len(fetchLog) : Ok200(fetchLog[i])
         THEN /\ Ok200(fetchLog[Len(fetchLog)])
              /\ \A i \in 1..(Len(fetchLog) - 1) : ~Ok200(fetchLog[i])
              /\ fetchRes = fetchLog[Len(fetchLog)].content
         ELSE /\ Len(fetchLog) = fetchRetries
              /\ fetchRes = None

C6_Witness ==
    /\ fetchPc = "returned"
    /\ fetchRetries = 3
    /\ Len(fetchLog) = 3
    /\ fetchLog[1].error
    /\ fetchLog[2].status_code = 404
    /\ fetchLog[3].status_code = 200
    /\ fetchRes = ListingA

\* C7: the run never dies of a failed detail fetch, translation or
\* notification: a candidate with such a failure has its row as soon as the
\* loop moves on, and a run that got its listing classifies every candidate.
C7_FailuresDoNotAbort ==
    /\ pc # "raised"
    /\ pc \in {"loop", "done"} => \A f \in failures : HasRow(f.url)
    /\ (pc = "done" /\ html.kind = "html")
          => \A u \in CandidateUrls(html) : TimesClassified(u) >= 1

C7_Witness ==
    /\ pc = "done"
    /\ html = ListingA
    /\ { [url |-> Url1, what |-> w] : w \in {"detail", "translate", "notify"} }
          \subseteq failures
    /\ Len(classLog) = 2
    /\ classLog[1].url = Url1
    /\ classLog[2].url = Url2
    /\ db.rows # dbAtStart.rows

\* C8: after a listing fetch that returned None the run is over at once:
\* no detail fetch was begun, send_dingtalk was not called and the seen-set
\* is as it was when the run began.
C8_ListingFailureIsClean ==
    (pc \notin {"idle", "run_monitor", "listing"} /\ html.kind = "none")
        => /\ pc = "done"
           /\ db = dbAtStart
           /\ fetchedInRun = {}
           /\ sentInRun = <<>>
           /\ fetchPc = "idle"

C8_Witness ==
    /\ pc = "done"
    /\ html.kind = "none"
    /\ clock = 2
    /\ Cardinality(db.rows) = 2
    /\ db = dbAtStart

\* The text of the detail page as run_monitor got it; empty after a failed
\* detail fetch.
BodyText == IF detail_html.kind = "html" THEN detail_html.text ELSE <<>>

\* Some configured keyword occurs in the title, case ignored.
TitleHit ==
    LET text == Lower(title)
    IN  \E i \in 1..Len(config.keywords) :
            IsSubstr(Lower(config.keywords[i]), text)

\* C9: for a new candidate whose title holds a keyword, the matched list is
\* the keywords found in the title, whatever the detail page holds, and the
\* candidate is a hit.
C9_TitleShortCircuit ==
    (Decided /\ TitleHit)
        => /\ LET text == Lower(title)
              IN  matched = SelectSeq(KEYWORDS(config),
                                      LAMBDA k : IsSubstr(k, text))
           /\ pc # "mark_nomatch"

\* The title holds nikel, the body only kobalt.
C9_Witness ==
    /\ pc = "send"
    /\ config.keywords = DefaultKeywords
    /\ title = TitleNikel
    /\ detail_html = PageKobalt
    /\ matched = <<KwNikel>>

\* The text the match is made on: the title if it holds a keyword, else the
\* body; lower-cased.
MatchText == IF TitleHit THEN Lower(title) ELSE Lower(BodyText)

\* The configured keywords, as configured, that occur in MatchText.
ConfiguredHits ==
    LET text == MatchText
    IN  SelectSeq(config.keywords, LAMBDA k : IsSubstr(Lower(k), text))

\* C10 as claimed: the matched list is the sub-list of the configured
\* keywords whose lower-cased form occurs in the lower-cased title (else
\* body); an empty list is no hit and no notification.
C10_SublistOfConfigured ==
    Decided
        => /\ matched = ConfiguredHits
           /\ (matched = <<>>) <=> (pc = "mark_nomatch")
           /\ matched = <<>> => \A i \in 1..Len(sentInRun) : sentInRun[i] # full_url

\* C10 as amended: the matched list holds the lower-cased forms of those
\* configured keywords, in configuration order.
C10_SublistOfLowered ==
    Decided
        => /\ LET hits == ConfiguredHits
              IN  matched = [i \in 1..Len(hits) |-> Lower(hits[i])]
           /\ (matched = <<>>) <=> (pc = "mark_nomatch")
           /\ matched = <<>> => \A i \in 1..Len(sentInRun) : sentInRun[i] # full_url

\* "Kobalt RKAB" under the configured keywords RKAB, Nikel, kobalt.
C10_Witness ==
    /\ pc = "send"
    /\ config.keywords = CapitalKeywords
    /\ title = TitleMulti
    /\ matched = <<KwRkab, KwKobalt>>

\* The url a href stands for: one that starts with "/" is taken against the
\* site origin.
ResolvedUrl(href) ==
    IF href # <<>> /\ href[1] = "/" THEN <<"https://www.esdm.go.id">> \o href ELSE href

\* The positions of the qualifying links of a listing that stand for url u.
Occurrences(listing, u) ==
    { j \in 1..Len(listing.anchors) :
        /\ listing.anchors[j].has_href
        /\ IsSubstr(<<"arsip-berita">>, listing.anchors[j].href)
        /\ Len(listing.anchors[j].text) > 10
        /\ ResolvedUrl(listing.anchors[j].href) = u }

\* The title of the first qualifying link of the listing that stands for u.
FirstTitle(listing, u) ==
    listing.anchors[CHOOSE j \in Occurrences(listing, u) :
                        \A h \in Occurrences(listing, u) : j <= h].text

\* The rows written since the run began.
NewRows == db.rows \ dbAtStart.rows

\* C11: within a run every resolved url is classified at most once, a detail
\* fetch is begun only for a url not yet classified or notified in the run,
\* send_dingtalk is called at most once per resolved url, and the candidate
\* in hand and every row written carry the title of the first occurrence.
C11_OncePerResolvedUrl ==
    ListingFetched =>
      /\ \A i \in 1..Len(classLog), j \in 1..Len(classLog) :
           ResolvedUrl(classLog[i].url) = ResolvedUrl(classLog[j].url) => i = j
      /\ \A i \in 1..Len(sentInRun), j \in 1..Len(sentInRun) :
           ResolvedUrl(sentInRun[i]) = ResolvedUrl(sentInRun[j]) => i = j
      /\ pc = "detail" =>
           /\ \A i \in 1..Len(classLog) :
                ResolvedUrl(classLog[i].url) # ResolvedUrl(full_url)
           /\ \A i \in 1..Len(sentInRun) :
                ResolvedUrl(sentInRun[i]) # ResolvedUrl(full_url)
      /\ pc \in {"detail", "translate", "send", "mark_match", "mark_nomatch"} =>
           title = FirstTitle(html, ResolvedUrl(full_url))
      /\ \A r \in NewRows :
           /\ r.title = FirstTitle(html, ResolvedUrl(r.url))
           /\ \A q \in NewRows : ResolvedUrl(q.url) = ResolvedUrl(r.url) => q = r

\* Listing A names url 1 twice, by a relative and by an absolute href, with
\* different titles.
C11_Witness ==
    /\ pc = "done"
    /\ html = ListingA
    /\ Cardinality(Occurrences(ListingA, Url1)) = 2
    /\ sentInRun = <<Url1>>
    /\ TimesClassified(Url1) = 1
    /\ \E r \in NewRows : r.url = Url1 /\ r.title = TitleNikel
    /\ Len(classLog) = 2

\* The seen-set held a row for u when the run began.
HadRow(u) == \E r \in dbAtStart.rows : r.url = u

\* C12: for a url that is in the seen-set when the run comes to it, no detail
\* fetch is begun, no translation or notification is made and no row is
\* written or changed: it is classified Seen-before and nothing else.
C12_SeenIsSkipped ==
    /\ \A u \in fetchedInRun : ~HadRow(u)
    /\ \A i \in 1..Len(sentInRun) : ~HadRow(sentInRun[i])
    /\ pc \in {"detail", "translate", "send", "mark_match", "mark_nomatch"}
          => ~HadRow(full_url)
    /\ \A r \in NewRows : ~HadRow(r.url)
    /\ \A r \in dbAtStart.rows : r \in db.rows
    /\ \A i \in 1..Len(classLog) :
          HadRow(classLog[i].url) <=> classLog[i].class = "Seen-before"

\* The second run finds url 2 recorded by the first and url 3 new.
C12_Witness ==
    /\ pc = "done"
    /\ html = ListingB
    /\ HadRow(Url2)
    /\ classLog[1] = [url |-> Url2, class |-> "Seen-before"]
    /\ fetchedInRun = {Url3}
    /\ \A r \in NewRows : r.url = Url3
    /\ {r \in db.rows : r.url = Url2} = {r \in dbAtStart.rows : r.url = Url2}

\* C13: after a failed detail fetch the body is empty and the date is
\* "Unknown", the match is the title's alone, and the candidate is recorded
\* with published_date "Unknown" as New-Match or New-NoMatch.
C13_DetailFailureDegrades ==
    /\ (Decided /\ detail_html.kind = "none")
          => /\ detail_text = <<>>
             /\ date_str = <<"U", "n", "k", "n", "o", "w", "n">>
             /\ matched = SelectSeq(KEYWORDS(config),
                                    LAMBDA k : IsSubstr(k, Lower(title)))
             /\ (pc = "mark_nomatch") <=> ~TitleHit
    /\ pc \in {"loop", "done"}
          => \A f \in failures :
               f.what = "detail"
                 => /\ \E r \in NewRows :
                         /\ r.url = f.url
                         /\ r.published_date = <<"U", "n", "k", "n", "o", "w", "n">>
                    /\ \E i \in 1..Len(classLog) :
                         /\ classLog[i].url = f.url
                         /\ classLog[i].class \in {"New-Match", "New-NoMatch"}

\* Both detail fetches of listing A fail: url 1 is a hit by its title, url 2
\* is none.
C13_Witness ==
    /\ pc = "done"
    /\ html = ListingA
    /\ {[url |-> Url1, what |-> "detail"], [url |-> Url2, what |-> "detail"]}
          \subseteq failures
    /\ classLog = << [url |-> Url1, class |-> "New-Match"],
                     [url |-> Url2, class |-> "New-NoMatch"] >>
    /\ \A r \in NewRows : r.published_date = Unknown
    /\ Cardinality(NewRows) = 2

\* The run before was terminated after it got this same listing.
AfterCutOnSameListing == ListingFetched /\ cut.html.kind = "html" /\ html = cut.html

\* u was persisted before the run before was terminated.
PersistedBeforeCut(u) == \E r \in cut.rows : r.url = u

\* The class u got in this run is among cs.
ClassifiedAs(u, cs) ==
    \E i \in 1..Len(classLog) : classLog[i].url = u /\ classLog[i].class \in cs

\* C14: a run over the listing of a terminated run starts from the rows that
\* run left; when it returns, every candidate that run had persisted was
\* skipped as Seen-before, and every other candidate was processed again:
\* detail fetch, match, notification if and only if matched, row.
C14_ResumeAfterCut ==
    AfterCutOnSameListing =>
      /\ dbAtStart.rows = cut.rows
      /\ \A u \in fetchedInRun : ~PersistedBeforeCut(u)
      /\ pc = "done" =>
           \A u \in CandidateUrls(html) :
             IF PersistedBeforeCut(u)
             THEN /\ ClassifiedAs(u, {"Seen-before"})
                  /\ u \notin fetchedInRun
                  /\ \A i \in 1..Len(sentInRun) : sentInRun[i] # u
                  /\ \A r \in NewRows : r.url # u
             ELSE /\ ClassifiedAs(u, {"New-Match", "New-NoMatch"})
                  /\ u \in fetchedInRun
                  /\ \E r \in NewRows : r.url = u
                  /\ ClassifiedAs(u, {"New-Match"})
                       <=> \E i \in 1..Len(sentInRun) : sentInRun[i] = u

\* The first run was terminated with url 1 recorded and url 2 not.
C14_Witness ==
    /\ pc = "done"
    /\ html = ListingA
    /\ cut.html = ListingA
    /\ PersistedBeforeCut(Url1)
    /\ ~PersistedBeforeCut(Url2)
    /\ ClassifiedAs(Url1, {"Seen-before"})
    /\ ClassifiedAs(Url2, {"New-Match", "New-NoMatch"})
    /\ fetchedInRun = {Url2}

\* The page text of the detail page holds the date label.
LabelInText == detail_html.kind = "html" /\ DateSearch(detail_html.text).found

\* The og:description content of the detail page holds the date label.
LabelInOg ==
    /\ detail_html.kind = "html"
    /\ detail_html.has_og
    /\ DateSearch(detail_html.og_content).found

\* The candidate in the locals has just been recorded by this run.
JustRecorded ==
    /\ pc = "loop"
    /\ classLog # <<>>
    /\ classLog[Len(classLog)].url = full_url
    /\ classLog[Len(classLog)].class \in {"New-Match", "New-NoMatch"}

\* C16: the date of a candidate is the stripped capture after the label in the
\* page text if the text holds the label, else the capture from og:description
\* if that holds the label, else "Unknown" (no label, no og:description, or
\* no detail page); it is the date written to the row.
C16_DateResolutionOrder ==
    /\ Decided \/ JustRecorded =>
         /\ LET inText == LabelInText
                inOg == LabelInOg
            IN  /\ inText =>
                     date_str = Strip(DateSearch(detail_html.text).group1)
                /\ ~inText /\ inOg =>
                     date_str = Strip(DateSearch(detail_html.og_content).group1)
                /\ ~inText /\ ~inOg => date_str = Unknown
         /\ detail_html \in {PageDate, PageBoth} =>
              date_str = <<"1", "9", " ", "D", "e", "s">>
         /\ detail_html = PageOg => date_str = <<"2", " ", "J", "a", "n">>
         /\ detail_html \in {PageKobalt, None} => date_str = Unknown
    /\ JustRecorded =>
         \E r \in NewRows : r.url = full_url /\ r.published_date = date_str

\* A page with the label both in its text and in og:description was recorded
\* with the date of its text.
C16_Witness ==
    /\ JustRecorded
    /\ detail_html = PageBoth
    /\ LabelInText
    /\ LabelInOg
    /\ \E r \in NewRows :
         r.url = full_url /\ r.published_date = <<"1", "9", " ", "D", "e", "s">>

\* C17: every candidate this run found new gets its detail fetch, title hit
\* or not; the fetch has returned and the date is extracted before the
\* candidate is matched, notified or recorded, and no row is written by this
\* run for a url whose detail page it did not fetch.
C17_DetailFetchBeforeRecord ==
    /\ pc # "idle" => \A r \in NewRows : r.url \in fetchedInRun
    /\ \A i \in 1..Len(classLog) :
         classLog[i].class \in {"New-Match", "New-NoMatch"}
            => classLog[i].url \in fetchedInRun
    /\ pc = "detail" =>
         /\ full_url \in fetchedInRun
         /\ \A r \in db.rows : r.url # full_url
    /\ Decided =>
         /\ full_url \in fetchedInRun
         /\ fetchPc = "idle"
         /\ date_str # <<>>
         /\ \A r \in db.rows : r.url # full_url

\* A candidate whose title holds a keyword was recorded after its detail page
\* was fetched.
C17_Witness ==
    /\ JustRecorded
    /\ TitleHit
    /\ full_url \in fetchedInRun
    /\ detail_html.kind = "html"
    /\ \E r \in NewRows : r.url = full_url

\* send_dingtalk was called for u in this run.
SentThisRun(u) == \E i \in 1..Len(sentInRun) : sentInRun[i] = u

\* C18: a hit is translated, then send_dingtalk is called, then the row is
\* written: wherever the process stands, a url this run recorded as a hit
\* has had its send_dingtalk call in this run, and a hit not yet sent has no
\* row.
C18_TranslateSendMark ==
    /\ pc = "translate" =>
         /\ title_cn = <<>>
         /\ ~SentThisRun(full_url)
         /\ ~HasRow(full_url)
    /\ pc = "send" =>
         /\ title_cn # <<>>
         /\ ~SentThisRun(full_url)
         /\ ~HasRow(full_url)
    /\ pc = "mark_match" =>
         /\ title_cn # <<>>
         /\ sentInRun # <<>>
         /\ sentInRun[Len(sentInRun)] = full_url
         /\ ~HasRow(full_url)
    /\ \A i \in 1..Len(classLog) :
         classLog[i].class = "New-Match" =>
            /\ SentThisRun(classLog[i].url)
            /\ HasRow(classLog[i].url)

\* A hit is recorded, after its translation and its send_dingtalk call.
C18_Witness ==
    /\ JustRecorded
    /\ classLog[Len(classLog)].class = "New-Match"
    /\ config.llm_api_key
    /\ title_cn = LlmAnswer(title)
    /\ sentInRun[Len(sentInRun)] = full_url
    /\ HasRow(full_url)

\* send_dingtalk did not deliver the notification of u in this run.
Undelivered(u) == [url |-> u, what |-> "notify"] \in failures

\* C19: a hit whose notification was not delivered (no webhook, a request
\* error, an errcode other than 0) is recorded like a delivered one: the run
\* goes on to mark_processed, and a run that starts with the row never calls
\* send_dingtalk for the url, so over the lifetime a url is sent once more
\* only per termination between its send and its mark.
C19_RecordedThoughUndelivered ==
    /\ pc # "raised"
    /\ \A u \in Urls :
         Undelivered(u) =>
            \/ pc = "mark_match" /\ full_url = u /\ ~HasRow(u)
            \/ HasRow(u) /\ ClassifiedAs(u, {"New-Match"})
    /\ pc # "idle" => \A u \in Urls : HadRow(u) => ~SentThisRun(u)
    /\ \A u \in Urls : sendLog[u] <= 1 + cutLog[u]
    /\ ~config.webhook =>
         \A u \in Urls : SentThisRun(u) => Undelivered(u)

\* Without a webhook url 1 was a hit in the first run; the second run has
\* returned and has not called send_dingtalk for it.
C19_Witness ==
    /\ ~config.webhook
    /\ pc = "done"
    /\ clock = 2
    /\ html = ListingA
    /\ sendLog[Url1] = 1
    /\ cutLog[Url1] = 0
    /\ HadRow(Url1)
    /\ ClassifiedAs(Url1, {"Seen-before"})
    /\ ~SentThisRun(Url1)

\* C15: job() starts a monitor process only when no other one is alive and
\* every earlier job() has returned: at most one monitor process is alive,
\* and while one is alive the scheduler is inside subprocess.run.
C15_RunsNeverOverlap ==
    /\ live <= 1
    /\ live = 1 => schedPc = "wait" /\ reaped = <<>>
    /\ schedPc \in {"main", "job", "loop"} => live = 0 /\ reaped = <<>>
    /\ jobs - Len(exits) <= 1
    /\ schedPc \in {"main", "loop"} => jobs = Len(exits)

\* The ten minutes are over while the first monitor process is still alive,
\* and no second one has been started.
C15_Witness ==
    /\ schedPc = "wait"
    /\ live = 1
    /\ due
    /\ jobs = 1

\* The k-th job() ended with a monitor process that exited non-zero or that
\* could not be started.
FailedJob(k) == Len(exits) = k /\ exits[k] \in {"nonzero", "nostart"}

\* C20: the scheduler never dies of a failed job, and after a failed job the
\* next job() is called: the error is caught, job() returns, and
\* run_pending calls job() again once the ten minutes are over.
C20_FailureDoesNotStopTrigger ==
    /\ [](schedPc # "crashed")
    /\ \A k \in 1..(MaxJobs - 1) : FailedJob(k) ~> (jobs > k)

\* Two jobs failed, one each way, and a third monitor process is running.
C20_Witness ==
    /\ Len(exits) = 2
    /\ exits[1] = "nostart"
    /\ exits[2] = "nonzero"
    /\ jobs = 3
    /\ schedPc = "wait"
    /\ live = 1

=============================================================================
